---------------------------- MODULE Spec2Model ----------------------------
(***************************************************************************)
(* MouseControl: hand-landmark frames -> cursor moves and clicks.          *)
(*                                                                         *)
(* Number representation (the source computes in floats; the model         *)
(* computes the same expressions exactly, in fixed point):                 *)
(*   landmark coordinates, distances, thresholds, scale factor:            *)
(*       thousandths            (0.05 is 50, 0.15 is 150, 2.0 is 2000)     *)
(*   sensitivity: tenths        (1.0 is 10, 3.0 is 30)                     *)
(*   time: half seconds         (0.5 s is 1)                               *)
(*   mapped cursor position: 1/PosDen, PosDen = 800 * 1000 * 10            *)
(* Python's None is the empty tuple <<>>; an optional scalar v is <<v>>.   *)
(***************************************************************************)
EXTENDS Integers, Sequences, FiniteSets, TLC

None == << >>

Min(a, b) == IF a <= b THEN a ELSE b
Max(a, b) == IF a >= b THEN a ELSE b

(***************************************************************************)
(* Units.                                                                  *)
(***************************************************************************)
Unit == 10 * 100
SensUnit == 2 * 5

\* utils.py: landmark indices used by the controller and the calibration
LANDMARK_WRIST == 0
LANDMARK_THUMB == 4
LANDMARK_INDEX_FINGER == 8
LANDMARK_MIDDLE_BASE == 9
LANDMARK_MIDDLE == 12

\* landmarks.landmark[i] (Python indexes from 0, a TLA+ sequence from 1)
Landmark(landmarks, i) == landmarks[i + 1]

(***************************************************************************)
(* utils.calculate_distance: np.sqrt((x2-x1)**2 + (y2-y1)**2).             *)
(* ISqrt is the integer square root; the frames of the model are chosen    *)
(* so that every distance is a whole number of thousandths.  Infinity      *)
(* (a None landmark) is the value Inf, larger than every distance.         *)
(***************************************************************************)
Inf == 1000000

\* the largest r in lo..hi with r * r <= n, by bisection
RECURSIVE ISqrtIn(_, _, _)
ISqrtIn(n, lo, hi) ==
    IF lo >= hi
    THEN lo
    ELSE LET mid == (lo + hi + 1) \div 2
         IN  IF mid * mid <= n THEN ISqrtIn(n, mid, hi) ELSE ISqrtIn(n, lo, mid - 1)
ISqrt(n) == ISqrtIn(n, 0, 2 * Unit)

calculate_distance(landmark1, landmark2) ==
    IF landmark1 = None \/ landmark2 = None
    THEN Inf
    ELSE LET x1 == landmark1[1]
             y1 == landmark1[2]
             x2 == landmark2[1]
             y2 == landmark2[2]
         IN  ISqrt((x2 - x1) * (x2 - x1) + (y2 - y1) * (y2 - y1))

(***************************************************************************)
(* utils.smooth_coordinates.  The mean of n positions is kept as the pair  *)
(* of sums together with n: <<sum_x, sum_y, n>> stands for                 *)
(* (sum_x / n, sum_y / n).                                                 *)
(***************************************************************************)
RECURSIVE SumAxis(_, _)
SumAxis(s, axis) == IF s = << >> THEN 0 ELSE s[1][axis] + SumAxis(Tail(s), axis)

\* list(position_history)[-window_size:]
LastN(s, n) ==
    IF n = 0 \/ Len(s) <= n THEN s ELSE SubSeq(s, Len(s) - n + 1, Len(s))

\* a variant that averages the whole history, for comparison
smooth_coordinates_whole(position_history, window_size) ==
    IF Len(position_history) < 2
    THEN None
    ELSE << SumAxis(position_history, 1), SumAxis(position_history, 2),
            Len(position_history) >>

\* a variant that already answers on a single sample
smooth_coordinates_eager(position_history, window_size) ==
    IF Len(position_history) < 1
    THEN None
    ELSE LET recent_positions == LastN(position_history, window_size)
         IN  << SumAxis(recent_positions, 1),
                SumAxis(recent_positions, 2),
                Len(recent_positions) >>

smooth_coordinates(position_history, window_size) ==
    IF Len(position_history) < 2
    THEN None
    ELSE LET recent_positions == LastN(position_history, window_size)
         IN  IF recent_positions = << >>
             THEN None
             ELSE << SumAxis(recent_positions, 1),
                     SumAxis(recent_positions, 2),
                     Len(recent_positions) >>

(***************************************************************************)
(* calibration.calculate_scale_factor.                                     *)
(***************************************************************************)
reference_distance == 150
ScaleMin == 500
ScaleMax == 2000

\* a variant without the clamp, for comparison
calculate_scale_factor_unclamped(landmarks) ==
    IF landmarks = None
    THEN None
    ELSE LET distance == calculate_distance(Landmark(landmarks, LANDMARK_WRIST),
                                            Landmark(landmarks, LANDMARK_MIDDLE_BASE))
         IN  IF distance = 0 \/ distance = Inf
             THEN None
             ELSE << (reference_distance * Unit) \div distance >>

\* a variant without the test for a zero or infinite distance, for comparison
calculate_scale_factor_no_degenerate(landmarks) ==
    IF landmarks = None
    THEN None
    ELSE LET distance == calculate_distance(Landmark(landmarks, LANDMARK_WRIST),
                                            Landmark(landmarks, LANDMARK_MIDDLE_BASE))
         IN  IF distance = 0
             THEN << ScaleMax >>
             ELSE << Max(ScaleMin, Min(ScaleMax, (reference_distance * Unit) \div distance)) >>

calculate_scale_factor(landmarks) ==
    IF landmarks = None
    THEN None
    ELSE LET wrist == Landmark(landmarks, LANDMARK_WRIST)
             middle_base == Landmark(landmarks, LANDMARK_MIDDLE_BASE)
             distance == calculate_distance(wrist, middle_base)
         IN  IF distance = 0 \/ distance = Inf
             THEN None
             ELSE LET scale_factor == (reference_distance * Unit) \div distance
                  IN  << Max(ScaleMin, Min(ScaleMax, scale_factor)) >>


(***************************************************************************)
(* The cursor/click sink (pyautogui).  A call is written <<name, args>>;   *)
(* whether it raises is an input of the operation that makes it.           *)
(***************************************************************************)
\* pyautogui.size()
screen_width == 1920
screen_height == 1080

\* floor(a * w / c) for 0 <= a <= c, by doubling, so that no intermediate
\* value exceeds 3 * c (TLC's integers are 32 bits wide).
RECURSIVE MulDivRem(_, _, _)
MulDivRem(a, w, c) ==
    IF w = 0
    THEN << 0, 0 >>
    ELSE LET h == MulDivRem(a, w \div 2, c)
             t == 2 * h[2] + (IF w % 2 = 1 THEN a ELSE 0)
         IN  << 2 * h[1] + (t \div c), t % c >>

\* int(mean * dimension), the mean being sum / n in units of 1 / den
ToScreen(sum, n, den, dimension) == MulDivRem(sum, dimension, n * den)[1]

(***************************************************************************)
(* mouse_controller.MouseController                                        *)
(***************************************************************************)
margin == 100
PosDen == (Unit - 2 * margin) * Unit * SensUnit

double_click_debounce == 1
default_click_threshold == 50
default_smoothing_window == 5

\* __init__
MouseController(smoothing_window) ==
    [ smoothing_window        |-> smoothing_window,
      position_history        |-> << >>,
      last_double_click_time  |-> 0,
      double_click_debounce   |-> double_click_debounce,
      single_click_threshold  |-> default_click_threshold,
      double_click_threshold  |-> default_click_threshold,
      last_single_click_state |-> FALSE,
      last_double_click_state |-> FALSE ]

\* a deque without maxlen
DequeAppend_unbounded(d, maxlen, x) == Append(d, x)

\* deque(maxlen=...).append
DequeAppend(d, maxlen, x) ==
    IF Len(d) >= maxlen THEN Tail(Append(d, x)) ELSE Append(d, x)

\* a variant without the clamp, for comparison
MapAxis_unclamped(v, sensitivity, scale_factor) ==
    ((2 * (v - margin) - (Unit - 2 * margin)) * scale_factor * sensitivity) \div 2
        + PosDen \div 2

\* a variant without the margin remap, for comparison
MapAxis_no_margin(v, sensitivity, scale_factor) ==
    \* (v - 0.5) * scale_factor * sensitivity + 0.5; PosDen / (Unit * Unit * SensUnit) is 4 / 5
    Max(0, Min(PosDen, ((v - Unit \div 2) * scale_factor * sensitivity * 4) \div 5
                           + PosDen \div 2))

\* one axis of the coordinate mapper: margin remap, scale and sensitivity
\* about the centre, clamp to [0, 1]
MapAxis(v, sensitivity, scale_factor) ==
    LET span == Unit - 2 * margin
        centred == 2 * (v - margin) - span          \* (v' - 0.5) * 2 * span
        scaled == (centred * scale_factor * sensitivity) \div 2 + PosDen \div 2
    IN  Max(0, Min(PosDen, scaled))

\* move_cursor: the new controller, the return value and the sink calls made
move_cursor(self, landmark_index, landmarks, sensitivity, scale_factor, sink_ok) ==
    IF landmarks = None \/ landmark_index >= Len(landmarks)
    THEN [ self |-> self, ret |-> FALSE, calls |-> << >> ]
    ELSE LET palm_landmark == Landmark(landmarks, landmark_index)
             x_norm == MapAxis(palm_landmark[1], sensitivity, scale_factor)
             y_norm == MapAxis(palm_landmark[2], sensitivity, scale_factor)
             history == DequeAppend(self.position_history, self.smoothing_window,
                                    << x_norm, y_norm >>)
             appended == [ self EXCEPT !.position_history = history ]
             smoothed == smooth_coordinates(history, self.smoothing_window)
         IN  IF smoothed = None
             THEN [ self |-> appended, ret |-> FALSE, calls |-> << >> ]
             ELSE LET screen_x == ToScreen(smoothed[1], smoothed[3], PosDen, screen_width)
                      screen_y == ToScreen(smoothed[2], smoothed[3], PosDen, screen_height)
                  IN  [ self |-> appended, ret |-> sink_ok,
                        calls |-> << << "moveTo", screen_x, screen_y >> >> ]

\* detect_single_click that resets the latch on a frame without landmarks
detect_single_click_gap_reset(self, landmarks, sink_ok) ==
    IF landmarks = None
    THEN [ self |-> [ self EXCEPT !.last_single_click_state = FALSE ],
           ret |-> FALSE, calls |-> << >> ]
    ELSE LET distance == calculate_distance(Landmark(landmarks, LANDMARK_THUMB),
                                            Landmark(landmarks, LANDMARK_MIDDLE))
             is_clicking == distance < self.single_click_threshold
         IN  IF is_clicking /\ ~self.last_single_click_state
             THEN IF sink_ok
                  THEN [ self |-> [ self EXCEPT !.last_single_click_state = TRUE ],
                         ret |-> TRUE, calls |-> << << "click" >> >> ]
                  ELSE [ self |-> self, ret |-> FALSE, calls |-> << << "click" >> >> ]
             ELSE IF ~is_clicking
                  THEN [ self |-> [ self EXCEPT !.last_single_click_state = FALSE ],
                         ret |-> FALSE, calls |-> << >> ]
                  ELSE [ self |-> self, ret |-> FALSE, calls |-> << >> ]

\* detect_single_click that is level-triggered: it clicks on every frame
\* below the threshold, engaged or not
detect_single_click_level(self, landmarks, sink_ok) ==
    IF landmarks = None
    THEN [ self |-> self, ret |-> FALSE, calls |-> << >> ]
    ELSE LET distance == calculate_distance(Landmark(landmarks, LANDMARK_THUMB),
                                            Landmark(landmarks, LANDMARK_MIDDLE))
             is_clicking == distance < self.single_click_threshold
         IN  IF is_clicking
             THEN IF sink_ok
                  THEN [ self |-> [ self EXCEPT !.last_single_click_state = TRUE ],
                         ret |-> TRUE, calls |-> << << "click" >> >> ]
                  ELSE [ self |-> self, ret |-> FALSE, calls |-> << << "click" >> >> ]
             ELSE [ self |-> [ self EXCEPT !.last_single_click_state = FALSE ],
                    ret |-> FALSE, calls |-> << >> ]

\* detect_single_click
\* a variant that engages the latch before it calls the sink
detect_single_click_latches_first(self, landmarks, sink_ok) ==
    IF landmarks = None
    THEN [ self |-> self, ret |-> FALSE, calls |-> << >> ]
    ELSE LET distance == calculate_distance(Landmark(landmarks, LANDMARK_THUMB),
                                            Landmark(landmarks, LANDMARK_MIDDLE))
             is_clicking == distance < self.single_click_threshold
         IN  IF is_clicking /\ ~self.last_single_click_state
             THEN [ self |-> [ self EXCEPT !.last_single_click_state = TRUE ],
                    ret |-> sink_ok, calls |-> << << "click" >> >> ]
             ELSE IF ~is_clicking
                  THEN [ self |-> [ self EXCEPT !.last_single_click_state = FALSE ],
                         ret |-> FALSE, calls |-> << >> ]
                  ELSE [ self |-> self, ret |-> FALSE, calls |-> << >> ]

detect_single_click(self, landmarks, sink_ok) ==
    IF landmarks = None
    THEN [ self |-> self, ret |-> FALSE, calls |-> << >> ]
    ELSE LET thumb == Landmark(landmarks, LANDMARK_THUMB)
             middle == Landmark(landmarks, LANDMARK_MIDDLE)
             distance == calculate_distance(thumb, middle)
             is_clicking == distance < self.single_click_threshold
         IN  IF is_clicking /\ ~self.last_single_click_state
             THEN IF sink_ok
                  THEN [ self |-> [ self EXCEPT !.last_single_click_state = TRUE ],
                         ret |-> TRUE, calls |-> << << "click" >> >> ]
                  ELSE [ self |-> self, ret |-> FALSE, calls |-> << << "click" >> >> ]
             ELSE IF ~is_clicking
                  THEN [ self |-> [ self EXCEPT !.last_single_click_state = FALSE ],
                         ret |-> FALSE, calls |-> << >> ]
                  ELSE [ self |-> self, ret |-> FALSE, calls |-> << >> ]

\* detect_double_click without the debounce check
detect_double_click_no_debounce(self, landmarks, current_time, sink_ok) ==
    IF landmarks = None
    THEN [ self |-> self, ret |-> FALSE, calls |-> << >> ]
    ELSE LET distance == calculate_distance(Landmark(landmarks, LANDMARK_THUMB),
                                            Landmark(landmarks, LANDMARK_INDEX_FINGER))
             is_clicking == distance < self.double_click_threshold
         IN  IF is_clicking /\ ~self.last_double_click_state
             THEN IF sink_ok
                  THEN [ self |-> [ self EXCEPT !.last_double_click_time = current_time,
                                                !.last_double_click_state = TRUE ],
                         ret |-> TRUE, calls |-> << << "doubleClick" >> >> ]
                  ELSE [ self |-> self, ret |-> FALSE, calls |-> << << "doubleClick" >> >> ]
             ELSE IF ~is_clicking
                  THEN [ self |-> [ self EXCEPT !.last_double_click_state = FALSE ],
                         ret |-> FALSE, calls |-> << >> ]
                  ELSE [ self |-> self, ret |-> FALSE, calls |-> << >> ]

\* a variant that does not fire while the single-click latch is engaged
detect_double_click_after_single(self, landmarks, current_time, sink_ok) ==
    IF landmarks = None
    THEN [ self |-> self, ret |-> FALSE, calls |-> << >> ]
    ELSE IF current_time - self.last_double_click_time < self.double_click_debounce
    THEN [ self |-> self, ret |-> FALSE, calls |-> << >> ]
    ELSE LET distance == calculate_distance(Landmark(landmarks, LANDMARK_THUMB),
                                            Landmark(landmarks, LANDMARK_INDEX_FINGER))
             is_clicking == distance < self.double_click_threshold
         IN  IF is_clicking /\ ~self.last_double_click_state /\ ~self.last_single_click_state
             THEN IF sink_ok
                  THEN [ self |-> [ self EXCEPT !.last_double_click_time = current_time,
                                                !.last_double_click_state = TRUE ],
                         ret |-> TRUE, calls |-> << << "doubleClick" >> >> ]
                  ELSE [ self |-> self, ret |-> FALSE, calls |-> << << "doubleClick" >> >> ]
             ELSE IF ~is_clicking
                  THEN [ self |-> [ self EXCEPT !.last_double_click_state = FALSE ],
                         ret |-> FALSE, calls |-> << >> ]
                  ELSE [ self |-> self, ret |-> FALSE, calls |-> << >> ]

\* a variant that records a release of the pinch inside the debounce window
detect_double_click_tracks_release(self, landmarks, current_time, sink_ok) ==
    IF landmarks = None
    THEN [ self |-> self, ret |-> FALSE, calls |-> << >> ]
    ELSE LET distance == calculate_distance(Landmark(landmarks, LANDMARK_THUMB),
                                            Landmark(landmarks, LANDMARK_INDEX_FINGER))
             is_clicking == distance < self.double_click_threshold
             in_window == current_time - self.last_double_click_time
                             < self.double_click_debounce
         IN  IF is_clicking /\ ~self.last_double_click_state /\ ~in_window
             THEN IF sink_ok
                  THEN [ self |-> [ self EXCEPT !.last_double_click_time = current_time,
                                                !.last_double_click_state = TRUE ],
                         ret |-> TRUE, calls |-> << << "doubleClick" >> >> ]
                  ELSE [ self |-> self, ret |-> FALSE, calls |-> << << "doubleClick" >> >> ]
             ELSE IF ~is_clicking
                  THEN [ self |-> [ self EXCEPT !.last_double_click_state = FALSE ],
                         ret |-> FALSE, calls |-> << >> ]
                  ELSE [ self |-> self, ret |-> FALSE, calls |-> << >> ]

\* detect_double_click; current_time is time.time()
detect_double_click(self, landmarks, current_time, sink_ok) ==
    IF landmarks = None
    THEN [ self |-> self, ret |-> FALSE, calls |-> << >> ]
    ELSE IF current_time - self.last_double_click_time < self.double_click_debounce
    THEN [ self |-> self, ret |-> FALSE, calls |-> << >> ]
    ELSE LET thumb == Landmark(landmarks, LANDMARK_THUMB)
             index == Landmark(landmarks, LANDMARK_INDEX_FINGER)
             distance == calculate_distance(thumb, index)
             is_clicking == distance < self.double_click_threshold
         IN  IF is_clicking /\ ~self.last_double_click_state
             THEN IF sink_ok
                  THEN [ self |-> [ self EXCEPT !.last_double_click_time = current_time,
                                                !.last_double_click_state = TRUE ],
                         ret |-> TRUE, calls |-> << << "doubleClick" >> >> ]
                  ELSE [ self |-> self, ret |-> FALSE, calls |-> << << "doubleClick" >> >> ]
             ELSE IF ~is_clicking
                  THEN [ self |-> [ self EXCEPT !.last_double_click_state = FALSE ],
                         ret |-> FALSE, calls |-> << >> ]
                  ELSE [ self |-> self, ret |-> FALSE, calls |-> << >> ]

\* the two detector calls of one frame (main.py, "Detecta cliques"), both on
\* the frame's landmarks; the two return values are discarded by the caller
detect_clicks(self, landmarks, current_time, click_ok, double_ok) ==
    LET single == detect_single_click(self, landmarks, click_ok)
        double == detect_double_click(single.self, landmarks, current_time, double_ok)
    IN  [ self |-> double.self, ret |-> FALSE,
          calls |-> single.calls \o double.calls,
          returned |-> << single.ret, double.ret >> ]

\* a variant that also disengages the two latches
set_click_thresholds_rearms(self, single, double) ==
    [ self EXCEPT !.single_click_threshold = single,
                  !.double_click_threshold = double,
                  !.last_single_click_state = FALSE,
                  !.last_double_click_state = FALSE ]

\* set_click_thresholds
set_click_thresholds(self, single, double) ==
    [ self EXCEPT !.single_click_threshold = single,
                  !.double_click_threshold = double ]

\* reset that forgets the two latches
reset_keeps_latches(self) ==
    [ self EXCEPT !.position_history = << >>,
                  !.last_double_click_time = 0 ]

\* reset that forgets the debounce time
reset_keeps_time(self) ==
    [ self EXCEPT !.position_history = << >>,
                  !.last_single_click_state = FALSE,
                  !.last_double_click_state = FALSE ]

\* reset
reset(self) ==
    [ self EXCEPT !.position_history = << >>,
                  !.last_single_click_state = FALSE,
                  !.last_double_click_state = FALSE,
                  !.last_double_click_time = 0 ]

(***************************************************************************)
(* Hands.  A HandLandmarks value is the sequence of its 21 points; only    *)
(* the wrist (0), thumb tip (4), index tip (8), middle base (9) and middle *)
(* tip (12) are read.  Off(d) is a vector of length d (a 3-4-5 triangle),  *)
(* so that the distances of a hand are known by construction.              *)
(***************************************************************************)
ThumbTip == << 400, 400 >>
Filler == << 0, 0 >>
Off(d) == << (3 * d) \div 5, (4 * d) \div 5 >>
Plus(p, v) == << p[1] + v[1], p[2] + v[2] >>

\* palm at `palm`, middle base d_ref away from it, middle tip d_single and
\* index tip d_double away from the thumb tip
Hand(palm, d_ref, d_single, d_double) ==
    [ i \in 1..21 |->
        CASE i = LANDMARK_WRIST + 1        -> palm
          [] i = LANDMARK_THUMB + 1        -> ThumbTip
          [] i = LANDMARK_INDEX_FINGER + 1 -> Plus(ThumbTip, Off(d_double))
          [] i = LANDMARK_MIDDLE_BASE + 1  -> Plus(palm, Off(d_ref))
          [] i = LANDMARK_MIDDLE + 1       -> Plus(ThumbTip, Off(d_single))
          [] OTHER                         -> Filler ]

Centre == << 500, 500 >>
Corner == << 100, 900 >>

(***************************************************************************)
(* State.                                                                  *)
(*   mc      st.session_state.mouse_controller, the controller the UI      *)
(*           thread resets                                                 *)
(*   now     time.time(), in half seconds                                  *)
(*   ev      observation of the last controller call: which method, on     *)
(*           which controller, its inputs, its return value and the sink   *)
(*           calls it made, the history length and the latches it found,   *)
(*           and, when the call before it was reset(), what that reset     *)
(*           found; seq flips on every call; args holds the sensitivity    *)
(*           and scale factor given to move_cursor (when recording is on)  *)
(*           and the arguments of a function applied on its own (SpecFn),  *)
(*           value what that function returned                             *)
(*   gesture observation of the frames given to the two click detectors    *)
(*           since the last reset: the current run of below-threshold      *)
(*           frames of the single-click detector, and the last fire and    *)
(*           the pinch/release phase of the double-click detector          *)
(*   ss      st.session_state: tracking, calibrating, sensitivity,         *)
(*           scale_factor, last_calibration_time, calibration_success      *)
(*   vp      the VideoProcessor: the controller it uses ("None", "shared"  *)
(*           for st.session_state.mouse_controller, "local" for one of its *)
(*           own), _tracking_cache, and where recv is in the current       *)
(*           frame (pc) with the frame's landmarks and calibrating flag;   *)
(*           known holds the calibrating flag and the configuration        *)
(*           (sensitivity, scale factor) it last read successfully         *)
(*   local_mc the controller the processor made for itself, when it has    *)
(*   ui      where the script run of the UI thread is: "idle", or "reset"  *)
(*           between pausing and calling reset()                           *)
(*   obs     observations of the application: whether a session has        *)
(*           started (with no frame in flight) and not yet begun a frame,  *)
(*           the last result of calculate_scale_factor, and how many       *)
(*           frames, faults and user actions the run has had; when         *)
(*           recording is on (SpecObserved) also what the processor last   *)
(*           read (vp.known), how many times calculate_scale_factor was    *)
(*           called and when it was last called for the calibration that   *)
(*           is pending                                                    *)
(***************************************************************************)
VARIABLES mc, now, ev, gesture, ss, vp, local_mc, ui, obs

vars == << mc, now, ev, gesture, ss, vp, local_mc, ui, obs >>

\* the application's own state, untouched by the controller's own specifications
appVars == << ss, vp, ui, obs >>

\* bounds of the model
StartTime == 2       \* time.time() at start; more than 0.5 s after time 0
Horizon == 2         \* the clock runs to StartTime + Horizon
MaxWindow == 2       \* smoothing windows 1..MaxWindow in the controller's own specification
MaxRun == 2          \* the run-length observation saturates here
MaxFrames == 2       \* frames the video thread processes
MaxFaults == 1       \* accesses of the session state and commands of the sink that raise
MaxClicks == 3       \* buttons pressed and sliders moved by the user
MaxHistory == 3      \* histories of up to MaxHistory positions given to smooth_coordinates

MaxTime == StartTime + Horizon

\* what a call of method `op` on controller `self` (of `target`) leaves in ev
Event(self, op, target, landmarks, sink_ok, r) ==
    [ seq |-> 1 - ev.seq, op |-> op, after_reset |-> IF ev.op = "reset" THEN << ev.pre >> ELSE None,
      target |-> target,
      pre |-> [ len |-> Len(self.position_history),
                single |-> self.last_single_click_state,
                double |-> self.last_double_click_state ],
      landmarks |-> landmarks, sink_ok |-> sink_ok,
      ret |-> r.ret, calls |-> r.calls, args |-> None, value |-> None ]

NoResult == [ ret |-> FALSE, calls |-> << >> ]

InitEvent ==
    [ seq |-> 0, op |-> "init", after_reset |-> None, target |-> "shared",
      pre |-> [ len |-> 0, single |-> FALSE, double |-> FALSE ],
      landmarks |-> None, sink_ok |-> TRUE,
      ret |-> FALSE, calls |-> << >>, args |-> None, value |-> None ]

InitGesture ==
    [ s_len |-> 0, s_clicks |-> 0, s_click_at |-> 0, s_failed |-> FALSE,
      d_fire |-> None, d_fires |-> 0, d_phase |-> "idle" ]

\* the single-click detector was given `landmarks` and answered r
ObserveSingle(g, self, landmarks, r) ==
    IF landmarks = None
    THEN g
    ELSE LET d == calculate_distance(Landmark(landmarks, LANDMARK_THUMB),
                                     Landmark(landmarks, LANDMARK_MIDDLE))
         IN  IF d < self.single_click_threshold
             THEN [ g EXCEPT
                      !.s_len = Min(g.s_len + 1, MaxRun),
                      !.s_clicks = Min(g.s_clicks + (IF r.ret THEN 1 ELSE 0), 2),
                      !.s_click_at = IF r.ret /\ g.s_clicks = 0
                                     THEN Min(g.s_len + 1, MaxRun)
                                     ELSE g.s_click_at,
                      !.s_failed = g.s_failed \/ (r.calls # << >> /\ ~r.ret) ]
             ELSE [ g EXCEPT !.s_len = 0, !.s_clicks = 0, !.s_click_at = 0,
                             !.s_failed = FALSE ]

\* the double-click detector was given `landmarks` at time t and answered r
ObserveDouble(g, self, landmarks, t, r) ==
    IF landmarks = None
    THEN g
    ELSE LET d == calculate_distance(Landmark(landmarks, LANDMARK_THUMB),
                                     Landmark(landmarks, LANDMARK_INDEX_FINGER))
             pinch == d < self.double_click_threshold
             in_window == g.d_fire # None /\ t - g.d_fire[1] < double_click_debounce
         IN  IF r.ret
             THEN [ g EXCEPT !.d_fire = << t >>, !.d_fires = Min(g.d_fires + 1, 2),
                            !.d_phase = "held" ]
             ELSE IF ~pinch
             THEN [ g EXCEPT !.d_phase = IF g.d_phase = "idle" THEN "idle" ELSE "released" ]
             ELSE IF g.d_phase = "released"
             THEN [ g EXCEPT !.d_phase = IF in_window THEN "suppressed" ELSE "missed" ]
             ELSE g

ObserveReset(g) == InitGesture

(***************************************************************************)
(* main.py: the session state as the script first leaves it (lines 25-53)  *)
(* and VideoProcessor.__init__.                                            *)
(***************************************************************************)
InitSessionState ==
    [ tracking              |-> FALSE,
      sensitivity           |-> 10,
      scale_factor          |-> 1000,
      calibrating           |-> FALSE,
      last_calibration_time |-> 0,
      calibration_success   |-> FALSE ]

\* no processor yet: webrtc_streamer has not made one
NothingRead == [ tracking |-> None, calibrating |-> None, cfg |-> None ]

NoProcessor ==
    [ mouse_controller |-> "None", tracking_cache |-> TRUE, pc |-> "none",
      landmarks |-> None, calibrating |-> FALSE, known |-> NothingRead ]

\* VideoProcessor.__init__
VideoProcessor ==
    [ mouse_controller |-> "None", tracking_cache |-> TRUE, pc |-> "idle",
      landmarks |-> None, calibrating |-> FALSE, known |-> NothingRead ]

InitObs ==
    [ fresh_session |-> FALSE, scale_result |-> None,
      frames |-> 0, faults |-> 0, clicks |-> 0,
      recording |-> FALSE, estimates |-> 0, estimated |-> None ]

InitApp ==
    /\ ss = InitSessionState
    /\ vp = NoProcessor
    /\ local_mc = MouseController(default_smoothing_window)
    /\ ui = "idle"
    /\ obs = InitObs

(***************************************************************************)
(* Calls of the controller's methods (on the shared controller mc).  Each  *)
(* sets mc and ev; the clock and the gesture observation are left to the   *)
(* specification that makes the call.                                      *)
(***************************************************************************)
Ctl(target) == IF target = "local" THEN local_mc ELSE mc

SetCtl(target, self) ==
    IF target = "local"
    THEN local_mc' = self /\ UNCHANGED mc
    ELSE mc' = self /\ UNCHANGED local_mc

CallMove(target, landmarks, sensitivity, scale_factor, sink_ok) ==
    LET r == move_cursor(Ctl(target), LANDMARK_WRIST, landmarks, sensitivity,
                         scale_factor, sink_ok)
    IN  /\ SetCtl(target, r.self)
        /\ ev' = [ Event(Ctl(target), "move", target, landmarks, sink_ok, r)
                     EXCEPT !.args = IF obs.recording
                                     THEN << sensitivity, scale_factor >>
                                     ELSE None ]

CallSingle(target, landmarks, sink_ok) ==
    LET r == detect_single_click(Ctl(target), landmarks, sink_ok)
    IN  /\ SetCtl(target, r.self)
        /\ ev' = Event(Ctl(target), "single", target, landmarks, sink_ok, r)

CallDouble(target, landmarks, sink_ok) ==
    LET r == detect_double_click(Ctl(target), landmarks, now, sink_ok)
    IN  /\ SetCtl(target, r.self)
        /\ ev' = Event(Ctl(target), "double", target, landmarks, sink_ok, r)

CallClicks(target, landmarks, click_ok, double_ok) ==
    LET r == detect_clicks(Ctl(target), landmarks, now, click_ok, double_ok)
    IN  /\ SetCtl(target, r.self)
        /\ ev' = [ Event(Ctl(target), "clicks", target, landmarks,
                         click_ok /\ double_ok, r)
                     EXCEPT !.args = << click_ok, double_ok >>,
                            !.value = r.returned ]

CallThresholds(target, single, double) ==
    /\ SetCtl(target, set_click_thresholds(Ctl(target), single, double))
    /\ ev' = Event(Ctl(target), "thresholds", target, None, TRUE, NoResult)

CallReset(target) ==
    /\ SetCtl(target, reset(Ctl(target)))
    /\ ev' = Event(Ctl(target), "reset", target, None, TRUE, NoResult)

Tick ==
    /\ now < MaxTime
    /\ now' = now + 1
    /\ UNCHANGED << mc, local_mc, ev, gesture, appVars >>

(***************************************************************************)
(* SpecMC: the default controller on its own, any sequence of calls of     *)
(* its methods.                                                            *)
(***************************************************************************)
SingleFrames == { Hand(Centre, 150, d, 100) : d \in { 30, 50, 100 } } \cup { None }
DoubleFrames == { Hand(Centre, 150, 100, d) : d \in { 30, 50, 100 } } \cup { None }
MoveFrames == { Hand(Centre, 150, 100, 100), None }
ThresholdChoices == { << 50, 50 >>, << 40, 60 >> }

InitMC ==
    /\ mc = MouseController(default_smoothing_window)
    /\ now = StartTime
    /\ ev = InitEvent
    /\ gesture = InitGesture
    /\ InitApp

McMove ==
    \E landmarks \in MoveFrames, sink_ok \in BOOLEAN :
        /\ CallMove("shared", landmarks, 10, 1000, sink_ok)
        /\ UNCHANGED << now, gesture, appVars >>

McSingle ==
    \E landmarks \in SingleFrames, sink_ok \in BOOLEAN :
        /\ CallSingle("shared", landmarks, sink_ok)
        /\ UNCHANGED << now, gesture, appVars >>

McDouble ==
    \E landmarks \in DoubleFrames, sink_ok \in BOOLEAN :
        /\ CallDouble("shared", landmarks, sink_ok)
        /\ UNCHANGED << now, gesture, appVars >>

McThresholds ==
    \E t \in ThresholdChoices :
        /\ CallThresholds("shared", t[1], t[2])
        /\ UNCHANGED << now, gesture, appVars >>

McReset ==
    /\ CallReset("shared")
    /\ UNCHANGED << now, gesture, appVars >>

NextMC == Tick \/ McMove \/ McSingle \/ McDouble \/ McThresholds \/ McReset

SpecMC == InitMC /\ [][NextMC]_vars

(***************************************************************************)
(* SpecFrame: the default controller driven as a frame drives it: a        *)
(* frame's two detector calls on the same landmarks, besides single calls  *)
(* of move_cursor, of either detector and of reset.                        *)
(***************************************************************************)
\* hands that pinch for a click, for a double-click, for both or for neither
ClickFrames == { Hand(Centre, 150, s, d) : s \in { 30, 100 }, d \in { 30, 100 } } \cup { None }

McClicks ==
    \E landmarks \in ClickFrames, click_ok \in BOOLEAN, double_ok \in BOOLEAN :
        /\ CallClicks("shared", landmarks, click_ok, double_ok)
        /\ UNCHANGED << now, gesture, appVars >>

NextFrame == Tick \/ McMove \/ McSingle \/ McDouble \/ McClicks \/ McReset

SpecFrame == InitMC /\ [][NextFrame]_vars

(***************************************************************************)
(* SpecClicks: the two click detectors of the default controller, given    *)
(* any sequence of frames, threshold changes and resets, with the gesture  *)
(* the frames make observed as they are given.                             *)
(***************************************************************************)
InitClicks ==
    /\ mc = MouseController(default_smoothing_window)
    /\ now = StartTime
    /\ ev = InitEvent
    /\ gesture = InitGesture
    /\ InitApp

ClickSingle ==
    \E landmarks \in SingleFrames, sink_ok \in BOOLEAN :
        /\ CallSingle("shared", landmarks, sink_ok)
        /\ gesture' = ObserveSingle(gesture, mc, landmarks, ev')
        /\ UNCHANGED << now, appVars >>

ClickDouble ==
    \E landmarks \in DoubleFrames, sink_ok \in BOOLEAN :
        /\ CallDouble("shared", landmarks, sink_ok)
        /\ gesture' = ObserveDouble(gesture, mc, landmarks, now, ev')
        /\ UNCHANGED << now, appVars >>

ClickThresholds ==
    \E t \in ThresholdChoices :
        /\ CallThresholds("shared", t[1], t[2])
        /\ UNCHANGED << now, gesture, appVars >>

ClickReset ==
    /\ CallReset("shared")
    /\ gesture' = ObserveReset(gesture)
    /\ UNCHANGED << now, appVars >>

NextClicks == Tick \/ ClickSingle \/ ClickDouble \/ ClickThresholds \/ ClickReset

SpecClicks == InitClicks /\ [][NextClicks]_vars

(***************************************************************************)
(* SpecMove: move_cursor and reset on a controller constructed with any    *)
(* smoothing window in 1..MaxWindow or with the default one.               *)
(***************************************************************************)
PalmFrames == { Hand(p, 150, 100, 100) : p \in { Centre, Corner } } \cup { None }
SensitivityChoices == { 10, 30 }
ScaleChoices == { 500, 1000 }

InitMove ==
    /\ \E w \in (1..MaxWindow) \cup { default_smoothing_window } : mc = MouseController(w)
    /\ now = StartTime
    /\ ev = InitEvent
    /\ gesture = InitGesture
    /\ InitApp

MoveStep ==
    \E landmarks \in PalmFrames, sensitivity \in SensitivityChoices,
       scale_factor \in ScaleChoices, sink_ok \in BOOLEAN :
        /\ CallMove("shared", landmarks, sensitivity, scale_factor, sink_ok)
        /\ UNCHANGED << now, gesture, appVars >>

MoveReset ==
    /\ CallReset("shared")
    /\ UNCHANGED << now, gesture, appVars >>

NextMove == MoveStep \/ MoveReset

SpecMove == InitMove /\ [][NextMove]_vars

(***************************************************************************)
(* SpecFn: the functions on their own.  The arguments of one call are      *)
(* drawn at the start (ev.args, headed by the function's name) and the     *)
(* call is made once: calculate_scale_factor on a hand, move_cursor on a   *)
(* newly constructed controller, smooth_coordinates on a history.          *)
(***************************************************************************)
\* hands whose wrist and middle-finger base are 0, 0.005, .. 0.4 apart, no
\* hand, and a hand whose wrist landmark is missing
ScaleFrames ==
    { Hand(Centre, 5 * k, 100, 100) : k \in 0..80 }
        \cup { None, [ Hand(Centre, 150, 100, 100) EXCEPT ![LANDMARK_WRIST + 1] = None ] }

\* palm positions on the two diagonals, inside and outside the frame
MapperCoordinates == { 0 - 200, 0, 100, 300, 500, 700, 900, 1000, 1200 }
MapperFrames ==
    { Hand(<< x, y >>, 150, 100, 100) : x \in MapperCoordinates, y \in MapperCoordinates }
\* the slider's range 0.5 .. 3.0 in steps of 0.1, and scale factors in [0.5, 2.0]
MapperSensitivities == 5..30
MapperScales == { 500, 750, 1000, 1500, 2000 }

\* histories of up to MaxHistory positions of the unit square
RECURSIVE Histories(_)
Histories(n) ==
    IF n = 0
    THEN { << >> }
    ELSE LET shorter == Histories(n - 1)
         IN  shorter \cup { Append(h, p) : h \in { g \in shorter : Len(g) = n - 1 },
                                           p \in { << 0, 0 >>, << PosDen, PosDen >>,
                                                    << PosDen \div 4, PosDen \div 2 >> } }
SmoothWindows == (1..MaxHistory) \cup { default_smoothing_window }

FnArgs ==
    { << "calculate_scale_factor", landmarks >> : landmarks \in ScaleFrames }
        \cup { << "move_cursor", f[1], f[2], f[3] >> :
                  f \in { g \in MapperFrames \X MapperSensitivities \X MapperScales :
                             g[1][1][2] \in { g[1][1][1], Unit - g[1][1][1] } } }
        \cup { << "smooth_coordinates", h, w >> : h \in Histories(MaxHistory), w \in SmoothWindows }

InitFn ==
    /\ mc = MouseController(default_smoothing_window)
    /\ now = StartTime
    /\ \E a \in FnArgs : ev = [ InitEvent EXCEPT !.args = a ]
    /\ gesture = InitGesture
    /\ ss = InitSessionState
    /\ vp = NoProcessor
    /\ local_mc = MouseController(default_smoothing_window)
    /\ ui = "idle"
    /\ obs = [ InitObs EXCEPT !.recording = TRUE ]

\* what a call of function `op` that returned `result` leaves in ev
Returned(op, result) == [ ev EXCEPT !.seq = 1 - ev.seq, !.op = op, !.value = result ]

FnScale ==
    /\ ev.op = "init"
    /\ ev.args[1] = "calculate_scale_factor"
    /\ ev' = Returned("calculate_scale_factor", calculate_scale_factor(ev.args[2]))
    /\ UNCHANGED << mc, local_mc, now, gesture, appVars >>

FnMove ==
    /\ ev.op = "init"
    /\ ev.args[1] = "move_cursor"
    /\ CallMove("shared", ev.args[2], ev.args[3], ev.args[4], TRUE)
    /\ UNCHANGED << now, gesture, appVars >>

FnSmooth ==
    /\ ev.op = "init"
    /\ ev.args[1] = "smooth_coordinates"
    /\ ev' = Returned("smooth_coordinates", smooth_coordinates(ev.args[2], ev.args[3]))
    /\ UNCHANGED << mc, local_mc, now, gesture, appVars >>

NextFn == FnScale \/ FnMove \/ FnSmooth

SpecFn == InitFn /\ [][NextFn]_vars

(***************************************************************************)
(* Spec: the application of main.py.  The script (UI thread) and recv (the *)
(* video thread) run concurrently and share st.session_state and the       *)
(* controller stored in it.  recv is cut at the points where the UI thread *)
(* can be scheduled between two uses of shared state: after the frame's    *)
(* flags are read, after the calibration block, and between the calls of   *)
(* the controller's methods.  An access of st.session_state from the video *)
(* thread may raise; each guarded access either succeeds or fails.         *)
(***************************************************************************)
calibration_interval == 1

default_sensitivity == 10
default_scale_factor == 1000

\* what HandTracker.process_frame returns for a frame: no hand, a hand near
\* the camera pinching both fingers, and an open hand whose wrist and
\* middle-finger base coincide
AppFrames ==
    { None,
      Hand(Centre, 50, 30, 30),
      Hand(Centre, 0, 100, 100) }

\* wrist to middle-finger-base distances of the hands calibration is tried on
ReferenceDistances == { 0, 50, 75, 100, 150, 300, 400 }

AppSensitivities == { 10, 30 }

\* the environment of a run: how many accesses and commands have raised,
\* how many widgets the user has operated
Failed(ok) == IF ok THEN 0 ELSE 1

Fault(o, n) ==
    IF o.faults + n <= MaxFaults THEN << [ o EXCEPT !.faults = o.faults + n ] >> ELSE None

UserClick(o) == [ o EXCEPT !.clicks = o.clicks + 1 ]

\* recv leaves the frame: its locals are gone
EndFrame(p) == [ p EXCEPT !.pc = "idle", !.landmarks = None, !.calibrating = FALSE ]

\* webrtc_streamer(video_processor_factory=VideoProcessor) while tracking
UiStream ==
    /\ ui = "idle"
    /\ ss.tracking
    /\ vp.pc = "none"
    /\ vp' = VideoProcessor
    /\ local_mc' = MouseController(default_smoothing_window)
    /\ UNCHANGED << mc, now, ev, gesture, ss, ui, obs >>

\* the script no longer renders the streamer: the processor goes away
UiStreamEnd ==
    /\ ui = "idle"
    /\ ~ss.tracking
    /\ vp.pc = "idle"
    /\ vp' = NoProcessor
    /\ local_mc' = MouseController(default_smoothing_window)
    /\ UNCHANGED << mc, now, ev, gesture, ss, ui, obs >>

\* the Iniciar/Pausar button: the flag is flipped, and reset() follows
\* when the flag is now False
UiToggle ==
    /\ ui = "idle"
    /\ obs.clicks < MaxClicks
    /\ ss' = [ ss EXCEPT !.tracking = ~ss.tracking ]
    /\ ui' = IF ss.tracking THEN "reset" ELSE "idle"
    /\ obs' = [ UserClick(obs) EXCEPT
                   !.fresh_session = ~ss.tracking /\ vp.pc \in { "none", "idle" } ]
    /\ UNCHANGED << mc, local_mc, now, ev, gesture, vp >>

UiReset ==
    /\ ui = "reset"
    /\ CallReset("shared")
    /\ ui' = "idle"
    /\ UNCHANGED << now, gesture, ss, vp, obs >>

UiSensitivity ==
    /\ ui = "idle"
    /\ obs.clicks < MaxClicks
    /\ \E v \in AppSensitivities \ { ss.sensitivity } :
        ss' = [ ss EXCEPT !.sensitivity = v ]
    /\ obs' = UserClick(obs)
    /\ UNCHANGED << mc, local_mc, now, ev, gesture, vp, ui >>

\* Calibrar and Calibrar Agora
UiCalibrate ==
    /\ ui = "idle"
    /\ obs.clicks < MaxClicks
    /\ ~ss.calibrating
    /\ ss' = [ ss EXCEPT !.calibrating = TRUE ]
    /\ obs' = UserClick(obs)
    /\ UNCHANGED << mc, local_mc, now, ev, gesture, vp, ui >>

\* Cancelar
UiCancel ==
    /\ ui = "idle"
    /\ obs.clicks < MaxClicks
    /\ ss.calibrating
    /\ ss' = [ ss EXCEPT !.calibrating = FALSE ]
    /\ obs' = [ UserClick(obs) EXCEPT !.estimated = None ]
    /\ UNCHANGED << mc, local_mc, now, ev, gesture, vp, ui >>

\* the success message is shown once and the flag is cleared
UiShowSuccess ==
    /\ ui = "idle"
    /\ ss.tracking
    /\ vp.pc # "none"
    /\ ss.calibration_success
    /\ ss' = [ ss EXCEPT !.calibration_success = FALSE ]
    /\ UNCHANGED << mc, local_mc, now, ev, gesture, vp, ui, obs >>

\* recv up to the calibration block: _ensure_initialized, the two reads of
\* the tracking flag, process_frame, the read of the calibrating flag
RecvBegin ==
    /\ vp.pc = "idle"
    /\ obs.frames < MaxFrames
    /\ \E landmarks \in AppFrames, init_ok \in BOOLEAN, read1_ok \in BOOLEAN,
          read2_ok \in BOOLEAN :
        LET make_local == ~init_ok /\ vp.mouse_controller = "None"
            controller == IF init_ok THEN "shared"
                          ELSE IF make_local THEN "local"
                          ELSE vp.mouse_controller
            cache1 == IF read1_ok THEN ss.tracking ELSE vp.tracking_cache
            cache2 == IF read2_ok THEN ss.tracking ELSE cache1
            o      == Fault(obs, Failed(init_ok) + Failed(read1_ok) + Failed(read2_ok))
        IN  /\ o # None
            /\ vp' = [ mouse_controller |-> controller,
                       tracking_cache   |-> cache2,
                       pc               |-> "calibrate",
                       landmarks        |-> landmarks,
                       calibrating      |-> IF read2_ok THEN ss.calibrating ELSE FALSE,
                       known            |-> IF obs.recording
                                            THEN [ vp.known EXCEPT
                                                     !.tracking = IF read1_ok \/ read2_ok
                                                                  THEN << ss.tracking >>
                                                                  ELSE @,
                                                     !.calibrating = IF read2_ok
                                                                     THEN << ss.calibrating >>
                                                                     ELSE @ ]
                                            ELSE vp.known ]
            /\ local_mc' = IF make_local
                           THEN MouseController(default_smoothing_window)
                           ELSE local_mc
            /\ obs' = [ o[1] EXCEPT !.fresh_session = obs.fresh_session /\ ~cache2,
                                    !.frames = obs.frames + 1 ]
    /\ UNCHANGED << mc, now, ev, gesture, ss, ui >>

\* the four writes of a successful calibration, in the order of lines
\* 186-190, without the clearing of the calibrating flag, for comparison
CalibrationWrites_keeps_flag(session_state, scale_factor, current_time, done) ==
    [ session_state EXCEPT
        !.scale_factor          = IF done >= 1 THEN scale_factor ELSE @,
        !.calibration_success   = IF done >= 3 THEN TRUE ELSE @,
        !.last_calibration_time = IF done >= 4 THEN current_time ELSE @ ]

\* the four writes of a successful calibration (lines 186-190): the first
\* `done` of them are made, the next one raises (none does when done = 4)
\* and the except clause at 191 ends the attempt
CalibrationWrites(session_state, scale_factor, current_time, done) ==
    [ session_state EXCEPT
        !.scale_factor          = IF done >= 1 THEN scale_factor ELSE @,
        !.calibrating           = IF done >= 2 THEN FALSE ELSE @,
        !.calibration_success   = IF done >= 3 THEN TRUE ELSE @,
        !.last_calibration_time = IF done >= 4 THEN current_time ELSE @ ]

\* a variant whose frame goes on to the controller whatever the tracking
\* value, for comparison
RecvCalibrate_ignores_tracking ==
    /\ vp.pc = "calibrate"
    /\ \E read_ok \in BOOLEAN, done \in 0..4 :
        LET attempt == vp.calibrating /\ vp.landmarks # None
            due     == now - ss.last_calibration_time > calibration_interval
            scale   == calculate_scale_factor(vp.landmarks)
            go_on   == vp.landmarks # None
            o       == Fault(obs, Failed(read_ok) + Failed(done = 4))
        IN  /\ o # None
            /\ ~attempt => read_ok
            /\ ~(attempt /\ read_ok /\ due /\ scale # None) => done = 4
            /\ IF attempt /\ ~read_ok
               THEN /\ vp' = EndFrame(vp)
                    /\ obs' = o[1]
                    /\ UNCHANGED ss
               ELSE /\ vp' = IF go_on THEN [ vp EXCEPT !.pc = "move" ] ELSE EndFrame(vp)
                    /\ IF attempt /\ due
                       THEN /\ obs' = IF obs.recording
                                      THEN [ o[1] EXCEPT
                                               !.scale_result = scale,
                                               !.estimates = obs.estimates + 1,
                                               !.estimated = IF scale # None /\ done >= 2
                                                             THEN None
                                                             ELSE << now >> ]
                                      ELSE [ o[1] EXCEPT !.scale_result = scale ]
                            /\ ss' = IF scale # None
                                     THEN CalibrationWrites(ss, scale[1], now, done)
                                     ELSE ss
                       ELSE obs' = o[1] /\ UNCHANGED ss
    /\ UNCHANGED << mc, local_mc, now, ev, gesture, ui >>

\* a variant that treats a frame without landmarks as a pause and resets
\* the controller, for comparison
RecvCalibrate_resets_on_gap ==
    /\ vp.pc = "calibrate"
    /\ \E read_ok \in BOOLEAN, done \in 0..4 :
        LET attempt == vp.calibrating /\ vp.landmarks # None
            due     == now - ss.last_calibration_time > calibration_interval
            scale   == calculate_scale_factor(vp.landmarks)
            go_on   == vp.landmarks # None /\ vp.tracking_cache
            o       == Fault(obs, Failed(read_ok) + Failed(done = 4))
        IN  /\ o # None
            /\ ~attempt => read_ok
            /\ ~(attempt /\ read_ok /\ due /\ scale # None) => done = 4
            /\ IF attempt /\ ~read_ok
               THEN /\ vp' = EndFrame(vp)
                    /\ obs' = o[1]
                    /\ UNCHANGED ss
               ELSE /\ vp' = IF go_on THEN [ vp EXCEPT !.pc = "move" ] ELSE EndFrame(vp)
                    /\ IF attempt /\ due
                       THEN /\ obs' = IF obs.recording
                                      THEN [ o[1] EXCEPT
                                               !.scale_result = scale,
                                               !.estimates = obs.estimates + 1,
                                               !.estimated = IF scale # None /\ done >= 2
                                                             THEN None
                                                             ELSE << now >> ]
                                      ELSE [ o[1] EXCEPT !.scale_result = scale ]
                            /\ ss' = IF scale # None
                                     THEN CalibrationWrites(ss, scale[1], now, done)
                                     ELSE ss
                       ELSE obs' = o[1] /\ UNCHANGED ss
    /\ IF vp.landmarks = None
       THEN CallReset(vp.mouse_controller)
       ELSE UNCHANGED << mc, local_mc, ev >>
    /\ UNCHANGED << now, gesture, ui >>

\* the calibration block.  The read of last_calibration_time is not
\* guarded: when it raises, recv is left.  The writes are guarded.
RecvCalibrate ==
    /\ vp.pc = "calibrate"
    /\ \E read_ok \in BOOLEAN, done \in 0..4 :
        LET attempt == vp.calibrating /\ vp.landmarks # None
            due     == now - ss.last_calibration_time > calibration_interval
            scale   == calculate_scale_factor(vp.landmarks)
            go_on   == vp.landmarks # None /\ vp.tracking_cache
            o       == Fault(obs, Failed(read_ok) + Failed(done = 4))
        IN  /\ o # None
            /\ ~attempt => read_ok
            /\ ~(attempt /\ read_ok /\ due /\ scale # None) => done = 4
            /\ IF attempt /\ ~read_ok
               THEN /\ vp' = EndFrame(vp)
                    /\ obs' = o[1]
                    /\ UNCHANGED ss
               ELSE /\ vp' = IF go_on THEN [ vp EXCEPT !.pc = "move" ] ELSE EndFrame(vp)
                    /\ IF attempt /\ due
                       THEN /\ obs' = IF obs.recording
                                      THEN [ o[1] EXCEPT
                                               !.scale_result = scale,
                                               !.estimates = obs.estimates + 1,
                                               !.estimated = IF scale # None /\ done >= 2
                                                             THEN None
                                                             ELSE << now >> ]
                                      ELSE [ o[1] EXCEPT !.scale_result = scale ]
                            /\ ss' = IF scale # None
                                     THEN CalibrationWrites(ss, scale[1], now, done)
                                     ELSE ss
                       ELSE obs' = o[1] /\ UNCHANGED ss
    /\ UNCHANGED << mc, local_mc, now, ev, gesture, ui >>

\* a variant in which a failure of moveTo leaves move_cursor and is caught
\* by recv (line 240), for comparison
RecvMove_propagates ==
    /\ vp.pc = "move"
    /\ \E cfg_ok \in BOOLEAN, sink_ok \in BOOLEAN :
        LET o == Fault(obs, Failed(cfg_ok) + Failed(sink_ok))
        IN  /\ o # None
            /\ obs' = o[1]
            /\ CallMove(vp.mouse_controller, vp.landmarks,
                        IF cfg_ok THEN ss.sensitivity ELSE default_sensitivity,
                        IF cfg_ok THEN ss.scale_factor ELSE default_scale_factor,
                        sink_ok)
            /\ vp' = [ (IF sink_ok \/ Len(Ctl(vp.mouse_controller).position_history) = 0
                        THEN [ vp EXCEPT !.pc = "single" ]
                        ELSE EndFrame(vp))
                         EXCEPT !.known.cfg = IF cfg_ok /\ obs.recording
                                              THEN << ss.sensitivity, ss.scale_factor >>
                                              ELSE @ ]
    /\ UNCHANGED << now, gesture, ss, ui >>

\* the control block: the configuration is read (1.0 and 1.0 when the read
\* raises) and the cursor is moved
RecvMove ==
    /\ vp.pc = "move"
    /\ \E cfg_ok \in BOOLEAN, sink_ok \in BOOLEAN :
        LET o == Fault(obs, Failed(cfg_ok) + Failed(sink_ok))
        IN  /\ o # None
            /\ obs' = o[1]
            /\ CallMove(vp.mouse_controller, vp.landmarks,
                        IF cfg_ok THEN ss.sensitivity ELSE default_sensitivity,
                        IF cfg_ok THEN ss.scale_factor ELSE default_scale_factor,
                        sink_ok)
            /\ vp' = [ vp EXCEPT !.pc = "single",
                                 !.known.cfg = IF cfg_ok /\ obs.recording
                                               THEN << ss.sensitivity, ss.scale_factor >>
                                               ELSE @ ]
    /\ UNCHANGED << now, gesture, ss, ui >>

RecvSingle ==
    /\ vp.pc = "single"
    /\ \E sink_ok \in BOOLEAN :
        LET o == Fault(obs, Failed(sink_ok))
        IN  /\ o # None
            /\ obs' = o[1]
            /\ CallSingle(vp.mouse_controller, vp.landmarks, sink_ok)
    /\ vp' = [ vp EXCEPT !.pc = "double" ]
    /\ UNCHANGED << now, gesture, ss, ui >>

RecvDouble ==
    /\ vp.pc = "double"
    /\ \E sink_ok \in BOOLEAN :
        LET o == Fault(obs, Failed(sink_ok))
        IN  /\ o # None
            /\ obs' = o[1]
            /\ CallDouble(vp.mouse_controller, vp.landmarks, sink_ok)
    /\ vp' = EndFrame(vp)
    /\ UNCHANGED << now, gesture, ss, ui >>

Init ==
    /\ mc = MouseController(default_smoothing_window)
    /\ now = StartTime
    /\ ev = InitEvent
    /\ gesture = InitGesture
    /\ InitApp

Next ==
    \/ Tick
    \/ UiStream
    \/ UiStreamEnd
    \/ UiToggle
    \/ UiReset
    \/ UiSensitivity
    \/ UiCalibrate
    \/ UiCancel
    \/ UiShowSuccess
    \/ RecvBegin
    \/ RecvCalibrate
    \/ RecvMove
    \/ RecvSingle
    \/ RecvDouble

Spec == Init /\ [][Next]_vars

(***************************************************************************)
(* SpecObserved: the application from the moment the user has pressed      *)
(* Iniciar and the streamer has made its processor, for as long as         *)
(* tracking is left on and the slider alone, with the recording of reads   *)
(* and of calls of calculate_scale_factor switched on.                     *)
(***************************************************************************)
InitObserved ==
    /\ mc = MouseController(default_smoothing_window)
    /\ now = StartTime
    /\ ev = InitEvent
    /\ gesture = InitGesture
    /\ ss = [ InitSessionState EXCEPT !.tracking = TRUE ]
    /\ vp = VideoProcessor
    /\ local_mc = MouseController(default_smoothing_window)
    /\ ui = "idle"
    /\ obs = [ InitObs EXCEPT !.fresh_session = TRUE, !.clicks = 1, !.recording = TRUE ]

NextObserved ==
    \/ Tick
    \/ UiCalibrate
    \/ UiCancel
    \/ UiShowSuccess
    \/ RecvBegin
    \/ RecvCalibrate
    \/ RecvMove
    \/ RecvSingle
    \/ RecvDouble

SpecObserved == InitObserved /\ [][NextObserved]_vars

(***************************************************************************)
(* Properties.                                                             *)
(***************************************************************************)
\* the step is a call of method `op`
(***************************************************************************)
(* SpecPause: the application from "tracking on" with the stream running,  *)
(* the user pausing and resuming while frames arrive.  What each frame     *)
(* read is recorded, and two accesses may fail, so that both reads of the  *)
(* tracking flag of one frame can.                                         *)
(***************************************************************************)
InitPause ==
    /\ mc = MouseController(default_smoothing_window)
    /\ now = StartTime
    /\ ev = InitEvent
    /\ gesture = InitGesture
    /\ ss = [ InitSessionState EXCEPT !.tracking = TRUE ]
    /\ vp = VideoProcessor
    /\ local_mc = MouseController(default_smoothing_window)
    /\ ui = "idle"
    /\ obs = [ InitObs EXCEPT !.clicks = 1, !.recording = TRUE, !.faults = MaxFaults - 2 ]

NextPause ==
    \/ UiStream
    \/ UiStreamEnd
    \/ UiToggle
    \/ UiReset
    \/ RecvBegin
    \/ RecvCalibrate
    \/ RecvMove
    \/ RecvSingle
    \/ RecvDouble

SpecPause == InitPause /\ [][NextPause]_vars

(***************************************************************************)
(* SpecTune: the default controller, any sequence of calls of move_cursor, *)
(* the detectors and set_click_thresholds, and calibrations of the session *)
(* it runs in: the estimator is called on a hand and its result, when      *)
(* there is one, is written as recv writes it.                             *)
(***************************************************************************)
\* hands whose wrist and middle-finger base are 0, 0.075 and 0.3 apart
TuneFrames == { Hand(Centre, d, 100, 100) : d \in { 0, 75, 300 } }

\* the estimate and the writes of recv's calibration block
calibrate(session_state, landmarks, current_time, done) ==
    LET scale_factor == calculate_scale_factor(landmarks)
    IN  IF scale_factor = None
        THEN session_state
        ELSE CalibrationWrites(session_state, scale_factor[1], current_time, done)

TuneCalibrate ==
    \E landmarks \in TuneFrames, done \in 0..4 :
        /\ ss' = calibrate(ss, landmarks, now, done)
        /\ ev' = [ ev EXCEPT !.seq = 1 - ev.seq, !.op = "calibrate",
                             !.landmarks = landmarks,
                             !.value = calculate_scale_factor(landmarks) ]
        /\ UNCHANGED << mc, local_mc, now, gesture, vp, ui, obs >>

TuneThresholds ==
    \E t \in ThresholdChoices :
        /\ CallThresholds("shared", t[1], t[2])
        /\ UNCHANGED << now, gesture, appVars >>

\* a frame whose hand pinches both fingers or neither, moved to and then
\* given to the two detectors
TuneMove ==
    /\ Len(mc.position_history) < MaxHistory
    /\ CallMove("shared", Hand(Centre, 150, 100, 100), default_sensitivity,
                default_scale_factor, TRUE)
    /\ UNCHANGED << now, gesture, appVars >>

TuneClicks ==
    \E d \in { 30, 100 } :
        /\ CallClicks("shared", Hand(Centre, 150, d, d), TRUE, TRUE)
        /\ UNCHANGED << now, gesture, appVars >>

NextTune == TuneMove \/ TuneClicks \/ TuneThresholds \/ TuneCalibrate

SpecTune == InitMC /\ [][NextTune]_vars

IsCall(op) == ev'.seq # ev.seq /\ ev'.op = op

SingleDist(landmarks) ==
    calculate_distance(Landmark(landmarks, LANDMARK_THUMB), Landmark(landmarks, LANDMARK_MIDDLE))
DoubleDist(landmarks) ==
    calculate_distance(Landmark(landmarks, LANDMARK_THUMB),
                       Landmark(landmarks, LANDMARK_INDEX_FINGER))

Click == << << "click" >> >>
DoubleClick == << << "doubleClick" >> >>

\* C1 (SpecClicks).  Single-click detector, frames with landmarks and a sink
\* that succeeds: a frame issues a click exactly when its distance is below
\* the threshold and the latch was disengaged before it; the latch
\* disengages only on a frame at or above the threshold (or by reset()); so
\* every run of below-threshold frames has exactly one click, on its first
\* frame.
C1_RunHasOneClick ==
    (gesture.s_len >= 1 /\ ~gesture.s_failed)
        => (gesture.s_clicks = 1 /\ gesture.s_click_at = 1)
C1_Frame ==
    /\ (IsCall("single") /\ ev'.landmarks # None /\ ev'.sink_ok) =>
          LET below == SingleDist(ev'.landmarks) < mc.single_click_threshold
          IN  /\ (ev'.calls = Click) <=> (below /\ ~mc.last_single_click_state)
              /\ ev'.calls \in { << >>, Click }
              /\ ev'.ret <=> (ev'.calls = Click)
              /\ mc'.last_single_click_state <=> below
    /\ (mc.last_single_click_state /\ ~mc'.last_single_click_state) =>
          \/ IsCall("reset")
          \/ /\ IsCall("single")
             /\ ev'.landmarks # None
             /\ SingleDist(ev'.landmarks) >= mc.single_click_threshold
C1_SingleClickOnEdge == []C1_RunHasOneClick /\ [][C1_Frame]_vars
C1_Witness ==
    /\ ev.op = "single" /\ ev.landmarks # None /\ ev.calls = << >>
    /\ gesture.s_len >= 2 /\ gesture.s_clicks = 1 /\ gesture.s_click_at = 1
    /\ mc.last_single_click_state

\* C2 (SpecClicks).  Double-click debounce: with no reset() in between, a
\* double-click is issued only on a frame at least 0.5 s after the last
\* successful double-click, so two fires are at least 0.5 s apart.
C2_Step ==
    (IsCall("double") /\ ev'.calls # << >> /\ gesture.d_fire # None)
        => now - gesture.d_fire[1] >= 1
C2_DoubleClickDebounce == [][C2_Step]_vars
C2_Witness ==
    /\ ev.op = "double" /\ ev.ret
    /\ gesture.d_fires >= 2
    /\ gesture.d_fire = << now >>

\* C3 (SpecClicks).  Double-click detector: an edge (a pinch frame after a
\* release frame) after a fire issues a double-click exactly when its pinch
\* frame is at least 0.5 s after that fire, wherever the release frame was.
C3_Step ==
    ( /\ IsCall("double") /\ ev'.landmarks # None /\ ev'.sink_ok
      /\ DoubleDist(ev'.landmarks) < mc.double_click_threshold
      /\ gesture.d_fire # None /\ gesture.d_phase = "released" )
        => (ev'.ret <=> now - gesture.d_fire[1] >= 1)
C3_EdgeAfterWindowFires == [][C3_Step]_vars

\* C4 (SpecClicks).  Double-click detector: a pinch that began inside the
\* debounce window (after a release) and is held issues a double-click on
\* the first frame at or after the end of the window.
C4_Step ==
    ( /\ IsCall("double") /\ ev'.landmarks # None /\ ev'.sink_ok
      /\ DoubleDist(ev'.landmarks) < mc.double_click_threshold
      /\ gesture.d_fire # None /\ gesture.d_phase = "suppressed"
      /\ now - gesture.d_fire[1] >= 1 )
        => ev'.ret
C4_HeldPinchFiresAfterWindow == [][C4_Step]_vars

\* C5 as claimed (SpecMC).  A detector given a frame without landmarks is
\* forced to IDLE: its latch is disengaged afterwards.
C5_GapStep ==
    /\ (IsCall("single") /\ ev'.landmarks = None) => ~mc'.last_single_click_state
    /\ (IsCall("double") /\ ev'.landmarks = None) => ~mc'.last_double_click_state
C5_GapForcesIdle == [][C5_GapStep]_vars

\* C5 as amended (SpecMC).  A detector given a frame without landmarks
\* changes nothing and issues nothing: both latches keep their values, so
\* an engaged latch survives the gap, and a pinch still held on the first
\* frame with landmarks after the gap issues no click.
C5_KeepStep ==
    /\ ((IsCall("single") \/ IsCall("double")) /\ ev'.landmarks = None) =>
          /\ mc' = mc
          /\ ev'.calls = << >>
          /\ ~ev'.ret
    /\ ( /\ ev.op = "single" /\ ev.landmarks = None /\ mc.last_single_click_state
         /\ IsCall("single") /\ ev'.landmarks # None
         /\ SingleDist(ev'.landmarks) < mc.single_click_threshold ) =>
          /\ ev'.calls = << >>
          /\ mc'.last_single_click_state
    /\ ( /\ ev.op = "double" /\ ev.landmarks = None /\ mc.last_double_click_state
         /\ IsCall("double") /\ ev'.landmarks # None
         /\ DoubleDist(ev'.landmarks) < mc.double_click_threshold ) =>
          /\ ev'.calls = << >>
          /\ mc'.last_double_click_state
C5_GapKeepsLatches == [][C5_KeepStep]_vars
C5_Witness ==
    /\ ev.op = "double" /\ ev.landmarks = None
    /\ ev.pre.single /\ ev.pre.double
    /\ mc.last_single_click_state /\ mc.last_double_click_state

\* C6 as claimed (SpecMC).  The first below-threshold sample a detector is
\* given after reset() issues no click.
C6_NoClickAfterReset ==
    (ev.after_reset # None /\ ev.landmarks # None) =>
        /\ (ev.op = "single" /\ SingleDist(ev.landmarks) < mc.single_click_threshold)
              => ev.calls = << >>
        /\ (ev.op = "double" /\ DoubleDist(ev.landmarks) < mc.double_click_threshold)
              => ev.calls = << >>

\* C6 as amended (SpecMC).  reset() leaves both detectors IDLE, so the first
\* below-threshold sample a detector is given after reset() issues its
\* click (click, or doubleClick), which succeeds when the sink does.
C6_ClickAfterReset ==
    (ev.after_reset # None /\ ev.landmarks # None) =>
        /\ (ev.op = "single" /\ SingleDist(ev.landmarks) < mc.single_click_threshold)
              => (ev.calls = Click /\ ev.ret = ev.sink_ok)
        /\ (ev.op = "double" /\ DoubleDist(ev.landmarks) < mc.double_click_threshold)
              => (ev.calls = DoubleClick /\ ev.ret = ev.sink_ok)
C6_Witness ==
    /\ ev.after_reset # None
    /\ ev.after_reset[1].single
    /\ ev.op = "single" /\ ev.landmarks # None
    /\ ev.calls = Click /\ ev.ret

\* C7 (SpecMC).  reset(): afterwards the history is empty, both latches are
\* disengaged and the last double-click time is 0; the smoothing window, the
\* debounce interval and both thresholds are as before.
C7_Step ==
    IsCall("reset") =>
        /\ mc'.position_history = << >>
        /\ ~mc'.last_single_click_state
        /\ ~mc'.last_double_click_state
        /\ mc'.last_double_click_time = 0
        /\ mc'.smoothing_window = mc.smoothing_window
        /\ mc'.double_click_debounce = mc.double_click_debounce
        /\ mc'.single_click_threshold = mc.single_click_threshold
        /\ mc'.double_click_threshold = mc.double_click_threshold
C7_ResetPostcondition == [][C7_Step]_vars
C7_Witness ==
    /\ ev.op = "reset"
    /\ ev.pre.len >= 2 /\ ev.pre.single /\ ev.pre.double
    /\ mc.position_history = << >>
    /\ mc.single_click_threshold # default_click_threshold

\* C8 as claimed (Spec).  Reset on pause: the pause handler's reset()
\* reaches the controller that frame processing uses, so that the first
\* frame a newly started session processes as tracked finds the controller
\* it uses with an empty history and both latches disengaged, under every
\* interleaving of the UI thread with the video thread.  (Sessions started
\* while a frame is still in flight are left out.)
Clean(self) ==
    /\ self.position_history = << >>
    /\ ~self.last_single_click_state
    /\ ~self.last_double_click_state
C8_FirstFrame ==
    /\ vp.pc = "idle" /\ vp'.pc = "calibrate"
    /\ obs.fresh_session /\ vp'.tracking_cache
C8_Step ==
    C8_FirstFrame =>
        Clean(IF vp'.mouse_controller = "local" THEN local_mc' ELSE mc')
C8_ResetOnPause == [][C8_Step]_vars

\* C9 (SpecMove).  The history never holds more than smoothing_window
\* entries (5 by default); an append to a full history drops exactly the
\* oldest entry, an append to any history keeps the entries it retains in
\* arrival order and puts the new position last.
C9_Bounded == Len(mc.position_history) <= mc.smoothing_window
C9_Step ==
    (IsCall("move") /\ ev'.landmarks # None) =>
        LET h == mc.position_history
            h2 == mc'.position_history
            w == mc.smoothing_window
            p == Landmark(ev'.landmarks, LANDMARK_WRIST)
        IN  /\ Len(h2) = Min(Len(h) + 1, w)
            /\ Len(h) < w => SubSeq(h2, 1, Len(h)) = h
            /\ Len(h) = w => SubSeq(h2, 1, w - 1) = Tail(h)
            /\ \E sensitivity \in SensitivityChoices, scale_factor \in ScaleChoices :
                  h2[Len(h2)] = << MapAxis(p[1], sensitivity, scale_factor),
                                   MapAxis(p[2], sensitivity, scale_factor) >>
C9_HistoryBounded ==
    /\ MouseController(default_smoothing_window).smoothing_window = 5
    /\ []C9_Bounded
    /\ [][C9_Step]_vars
C9_Witness ==
    /\ ev.op = "move" /\ ev.landmarks # None
    /\ ev.pre.len = default_smoothing_window
    /\ mc.smoothing_window = default_smoothing_window
    /\ Len(mc.position_history) = default_smoothing_window
    /\ mc.position_history[1] # mc.position_history[2]

\* C10 (Spec).  The scale factor is in [0.5, 2.0] or unavailable: every
\* result of calculate_scale_factor is None or in [0.5, 2.0]; the shared
\* scale_factor starts at 1.0, changes only in the calibration block of a
\* frame, to the non-None result of that frame, and is in [0.5, 2.0] in
\* every reachable state.
C10_Estimates ==
    \A d \in ReferenceDistances :
        LET scale == calculate_scale_factor(Hand(Centre, d, 100, 100))
        IN  scale = None \/ (scale[1] >= 500 /\ scale[1] <= 2000)
C10_Range ==
    /\ ss.scale_factor >= 500 /\ ss.scale_factor <= 2000
    /\ obs.scale_result # None =>
          (obs.scale_result[1] >= 500 /\ obs.scale_result[1] <= 2000)
    /\ obs.scale_result # None => C10_Estimates
C10_Written ==
    ss'.scale_factor # ss.scale_factor =>
        /\ vp.pc = "calibrate" /\ vp.calibrating
        /\ obs'.scale_result = << ss'.scale_factor >>
C10_ScaleFactorInRange ==
    /\ ss.scale_factor = 1000
    /\ []C10_Range
    /\ [][C10_Written]_vars
C10_Witness ==
    /\ obs.scale_result = << 2000 >>
    /\ ss.scale_factor = 2000
    /\ ev.op = "move" /\ ev.landmarks # None /\ ev.target = "shared"

\* the wrist to middle-finger-base distance of a hand
ReferenceDistance(landmarks) ==
    calculate_distance(Landmark(landmarks, LANDMARK_WRIST),
                       Landmark(landmarks, LANDMARK_MIDDLE_BASE))

\* C11 (SpecFn).  calculate_scale_factor returns None when the landmarks are
\* absent or the wrist to middle-base distance d is zero or infinite;
\* otherwise clamp(0.15 / d, 0.5, 2.0): 2.0 when 0.15 / d >= 2, 0.5 when
\* 0.15 / d <= 0.5, the quotient (to the thousandth) in between; a hand with
\* a larger d never gets a larger result; d = 0.15 gives 1.0, d = 0.075
\* gives 2.0, d = 0.3 gives 0.5 and d = 0 gives None.
C11_Value(landmarks, result) ==
    IF landmarks = None
    THEN result = None
    ELSE LET d == ReferenceDistance(landmarks)
         IN  IF d = 0 \/ d = Inf
             THEN result = None
             ELSE /\ result # None
                  /\ ScaleMin <= result[1] /\ result[1] <= ScaleMax
                  /\ reference_distance * Unit >= ScaleMax * d => result[1] = ScaleMax
                  /\ reference_distance * Unit <= ScaleMin * d => result[1] = ScaleMin
                  /\ ScaleMin < result[1] /\ result[1] < ScaleMax
                        => /\ result[1] * d <= reference_distance * Unit
                           /\ reference_distance * Unit < (result[1] + 1) * d
                  /\ d = 150 => result[1] = 1000
                  /\ d = 75 => result[1] = 2000
                  /\ d = 300 => result[1] = 500
C11_NonIncreasing(landmarks, result) ==
    \A other \in ScaleFrames :
        LET larger == calculate_scale_factor(other)
        IN  (/\ result # None
             /\ larger # None
             /\ ReferenceDistance(other) >= ReferenceDistance(landmarks))
                => larger[1] <= result[1]
C11_ScaleFactorValue ==
    ev.op = "calculate_scale_factor"
        => C11_Value(ev.args[2], ev.value) /\ C11_NonIncreasing(ev.args[2], ev.value)
C11_Witness ==
    /\ ev.op = "calculate_scale_factor"
    /\ ev.args[2] # None
    /\ ReferenceDistance(ev.args[2]) = 75
    /\ ev.value = << 2000 >>

\* C12 (SpecFn).  Whatever the palm position (inside the frame or outside
\* it), the sensitivity in [0.5, 3.0] and the scale factor in [0.5, 2.0],
\* the position move_cursor appends to the history has both axes in [0, 1].
C12_MapperRange ==
    ev.op = "move"
        => /\ Len(mc.position_history) = 1
           /\ \A axis \in 1..2 :
                /\ 0 <= mc.position_history[1][axis]
                /\ mc.position_history[1][axis] <= PosDen
C12_Witness ==
    /\ ev.op = "move"
    /\ Landmark(ev.landmarks, LANDMARK_WRIST) = << 1200, 0 - 200 >>
    /\ ev.args = << 30, 2000 >>
    /\ mc.position_history = << << PosDen, 0 >> >>

\* the call of the step had the sink raise
SinkRaised == ev'.calls # << >> /\ ~ev'.sink_ok

\* C13 (Spec).  A sink command that raises is contained: the controller
\* method returns False, recv goes on from a failed move to the single-click
\* evaluation, from there (failed or not) to the double-click evaluation,
\* and from there it leaves the frame with the processor as it was, ready
\* for the next frame; nothing else moves recv on in between.
C13_Step ==
    /\ (IsCall("move") /\ SinkRaised)
          => ~ev'.ret /\ vp.pc = "move" /\ vp' = [ vp EXCEPT !.pc = "single",
                                                                !.known = vp'.known ]
    /\ (IsCall("single") /\ SinkRaised)
          => ~ev'.ret /\ vp.pc = "single" /\ vp' = [ vp EXCEPT !.pc = "double" ]
    /\ (IsCall("double") /\ SinkRaised)
          => ~ev'.ret /\ vp.pc = "double" /\ vp' = EndFrame(vp)
    /\ (vp.pc = "single" /\ vp' # vp)
          => IsCall("single") /\ ev'.landmarks = vp.landmarks /\ vp'.pc = "double"
    /\ (vp.pc = "double" /\ vp' # vp)
          => IsCall("double") /\ ev'.landmarks = vp.landmarks /\ vp' = EndFrame(vp)
C13_NextFrame ==
    (vp.pc = "idle" /\ obs.frames < MaxFrames) => ENABLED RecvBegin
C13_SinkFailureContained == []C13_NextFrame /\ [][C13_Step]_vars
C13_Witness ==
    /\ ev.op = "move"
    /\ ev.calls # << >>
    /\ ~ev.sink_ok
    /\ ~ev.ret
    /\ vp.pc = "single"

\* C14 as claimed (SpecObserved).  When a read of a shared parameter fails
\* during a frame, the frame uses the value of that parameter the processor
\* last read successfully, and the frame is not aborted: the tracking value
\* and the calibrating flag of the frame are the shared ones or the ones
\* last read, a tracked frame with landmarks reaches the control block
\* whatever happens to the read of the last calibration time, and
\* move_cursor is given the shared sensitivity and scale factor or the ones
\* last read.
C14_Tracking ==
    (vp.pc = "idle" /\ vp'.pc = "calibrate")
        => vp'.tracking_cache \in { ss.tracking, vp.tracking_cache }
C14_Calibrating ==
    (vp.pc = "idle" /\ vp'.pc = "calibrate" /\ vp.known.calibrating # None)
        => vp'.calibrating \in { ss.calibrating, vp.known.calibrating[1] }
C14_NotAborted ==
    (vp.pc = "calibrate" /\ vp' # vp /\ vp.landmarks # None /\ vp.tracking_cache)
        => vp'.pc = "move"
C14_Configuration ==
    (IsCall("move") /\ vp.pc = "move" /\ vp.known.cfg # None)
        => ev'.args \in { << ss.sensitivity, ss.scale_factor >>, vp.known.cfg }
C14_Step == C14_Tracking /\ C14_Calibrating /\ C14_NotAborted /\ C14_Configuration
C14_ReadFailureFallsBack == [][C14_Step]_vars

\* C15 as claimed (SpecObserved).  While a calibration is pending (the flag
\* has been set and neither cleared by a success nor cancelled), two calls
\* of calculate_scale_factor are at least 0.5 s apart, whether or not the
\* first returned a scale factor.
C15_Step ==
    (obs'.estimates # obs.estimates /\ obs.estimated # None)
        => now - obs.estimated[1] >= calibration_interval
C15_EstimatorDebounced == [][C15_Step]_vars

\* the step called calculate_scale_factor
Estimated == obs'.estimates # obs.estimates

\* the session state after the first `done` writes of a calibration to `scale`
C16_Written(scale, done) ==
    [ tracking              |-> ss.tracking,
      sensitivity           |-> ss.sensitivity,
      scale_factor          |-> IF done >= 1 THEN scale ELSE ss.scale_factor,
      calibrating           |-> IF done >= 2 THEN FALSE ELSE ss.calibrating,
      calibration_success   |-> IF done >= 3 THEN TRUE ELSE ss.calibration_success,
      last_calibration_time |-> IF done >= 4 THEN now ELSE ss.last_calibration_time ]

\* a frame calls calculate_scale_factor only if the calibrating flag was set
\* when the frame read it, landmarks are present and the last calibration
\* time is more than 0.5 s ago; the video thread writes the session state in
\* no other step than one whose estimate is a scale factor
C16_OnlyOnRequest ==
    /\ (vp.pc = "idle" /\ vp'.pc = "calibrate" /\ vp'.calibrating) => ss.calibrating
    /\ Estimated
          => /\ vp.pc = "calibrate" /\ vp.calibrating /\ vp.landmarks # None
             /\ now - ss.last_calibration_time > calibration_interval
             /\ obs'.scale_result = calculate_scale_factor(vp.landmarks)
    /\ (vp' # vp /\ ~(Estimated /\ obs'.scale_result # None)) => ss' = ss

\* C16 as claimed (SpecObserved).  A frame that has the calibrating flag,
\* landmarks, a last calibration time more than 0.5 s ago and an estimate
\* that is a scale factor writes scale_factor, clears calibrating, sets
\* calibration_success and records the time; frames calibrate only on
\* request, so the scale factor is written once per request.
C16_AllWritten ==
    (Estimated /\ obs'.scale_result # None) => ss' = C16_Written(obs'.scale_result[1], 4)
C16_WrittenInOrder ==
    (Estimated /\ obs'.scale_result # None)
        => /\ ss' \in { C16_Written(obs'.scale_result[1], done) : done \in 0..4 }
           /\ obs'.faults = obs.faults => ss' = C16_Written(obs'.scale_result[1], 4)
C17_Step ==
    (Estimated /\ ReferenceDistance(vp.landmarks) \in { 0, Inf })
        => /\ obs'.scale_result = None
           /\ ss'.scale_factor = ss.scale_factor
           /\ ss'.calibrating = ss.calibrating
           /\ ss'.calibration_success = ss.calibration_success
           /\ ss'.last_calibration_time = ss.last_calibration_time
           /\ obs'.estimated # None
C17_DegenerateCalibration == [][C17_Step]_vars
C17_Witness ==
    /\ obs.estimates = 2
    /\ obs.scale_result = None
    /\ obs.estimated = << now >>
    /\ vp.pc = "move"
    /\ ReferenceDistance(vp.landmarks) = 0
    /\ ss.calibrating
    /\ ss.scale_factor = default_scale_factor
    /\ ~ss.calibration_success

\* the sum of one axis of the entries from..Len(history) of a history
RECURSIVE C18_Sum(_, _, _)
C18_Sum(history, from, axis) ==
    IF from > Len(history) THEN 0 ELSE history[from][axis] + C18_Sum(history, from + 1, axis)

\* C18 (SpecFn).  smooth_coordinates returns None for a history of fewer
\* than 2 entries; otherwise, per axis, the mean of the last
\* min(window_size, len(history)) entries (their sum and their number); the
\* history it was given is afterwards what it was; the history
\* [(0,0),(1,1)] with window 5 gives (0.5, 0.5).
C18_Value(history, window_size, result) ==
    IF Len(history) < 2
    THEN result = None
    ELSE LET n == Min(window_size, Len(history))
         IN  /\ result # None
             /\ result[3] = n
             /\ result[1] = C18_Sum(history, Len(history) - n + 1, 1)
             /\ result[2] = C18_Sum(history, Len(history) - n + 1, 2)
             /\ (history = << << 0, 0 >>, << PosDen, PosDen >> >> /\ window_size = 5)
                    => /\ 2 * result[1] = result[3] * PosDen
                       /\ 2 * result[2] = result[3] * PosDen
C18_Step ==
    IsCall("smooth_coordinates")
        => /\ ev'.args = ev.args
           /\ mc' = mc
           /\ C18_Value(ev.args[2], ev.args[3], ev'.value)
C18_SmoothCoordinates == [][C18_Step]_vars
C18_Witness ==
    /\ ev.op = "smooth_coordinates"
    /\ ev.args[2] = << << 0, 0 >>, << PosDen, PosDen >>, << PosDen \div 4, PosDen \div 2 >> >>
    /\ ev.args[3] = 2
    /\ ev.value = << PosDen + PosDen \div 4, PosDen + PosDen \div 2, 2 >>

\* C19 (SpecFn).  Per axis the position move_cursor appends is
\* clamp(((v - 0.1) / 0.8 - 0.5) * scale_factor * sensitivity + 0.5, 0, 1),
\* v being the palm's coordinate: in units of 1/PosDen the unclamped value
\* is (v - 0.5) * scale_factor * sensitivity / 0.8 + 0.5.  The centre of the
\* frame maps to the centre for every sensitivity and scale factor, and the
\* margin point (0.1, 0.1) maps to (0, 0) with sensitivity 1.0 and scale
\* factor 1.0, where the remap alone decides.
C19_Mapped(v, sensitivity, scale_factor) ==
    LET remapped == PosDen \div 2 + (v - Unit \div 2) * scale_factor * sensitivity
    IN  IF remapped < 0 THEN 0 ELSE IF remapped > PosDen THEN PosDen ELSE remapped
C19_MapperValue ==
    ev.op = "move"
        => LET palm == Landmark(ev.landmarks, LANDMARK_WRIST)
               appended == mc.position_history[Len(mc.position_history)]
           IN  /\ \A axis \in 1..2 :
                    appended[axis] = C19_Mapped(palm[axis], ev.args[1], ev.args[2])
               /\ palm = << 500, 500 >> => appended = << PosDen \div 2, PosDen \div 2 >>
               /\ (palm = << 100, 100 >> /\ ev.args = << 10, 1000 >>) => appended = << 0, 0 >>
C19_Witness ==
    /\ ev.op = "move"
    /\ Landmark(ev.landmarks, LANDMARK_WRIST) = << 300, 700 >>
    /\ ev.args = << 15, 750 >>
    /\ mc.position_history = << << 1750000, 6250000 >> >>

\* the step belongs to a frame of recv that has no landmarks
AbsentFrameStep ==
    \/ vp.pc = "idle" /\ vp'.pc = "calibrate" /\ vp'.landmarks = None
    \/ vp.pc \in { "calibrate", "move", "single", "double" } /\ vp.landmarks = None /\ vp' # vp

\* C20 (Spec).  A frame without landmarks leaves both controllers (history,
\* latches, last double-click time, thresholds) exactly as they were and
\* issues no moveTo, click or doubleClick; recv leaves such a frame after
\* the calibration block, without entering the control block.
C20_Step ==
    AbsentFrameStep
        => /\ mc' = mc
           /\ local_mc' = local_mc
           /\ ev' # ev => ev'.calls = << >>
           /\ vp.pc = "calibrate" => vp' = EndFrame(vp)
           /\ vp.pc \in { "idle", "calibrate" }
C20_AbsentFrameIsNoOp == [][C20_Step]_vars
C20_Witness ==
    /\ vp.pc = "calibrate"
    /\ vp.landmarks = None
    /\ vp.tracking_cache
    /\ vp.mouse_controller = "shared"
    /\ Len(mc.position_history) = 1
    /\ mc.last_single_click_state
    /\ mc.last_double_click_state
    /\ mc.last_double_click_time = now

\* the sink commands of a move_cursor call are moveTo commands
MoveCommands(calls) == \A i \in 1..Len(calls) : calls[i][1] = "moveTo"

\* a move_cursor call on a frame with landmarks appends exactly one position:
\* the history after it is the history before it, less its oldest entry when
\* it was full, followed by one new entry
C21_AppendsOne ==
    LET h == mc.position_history
        h2 == mc'.position_history
        w == mc.smoothing_window
    IN  /\ h2 # << >>
        /\ h2 = Append(IF Len(h) < w THEN h ELSE Tail(h), h2[Len(h2)])
        /\ mc' = [ mc EXCEPT !.position_history = h2 ]

C21_Step ==
    (IsCall("move") /\ ev'.landmarks # None) =>
        /\ C21_AppendsOne
        /\ MoveCommands(ev'.calls) /\ Len(ev'.calls) <= 1
        /\ ev'.pre.len = Len(mc.position_history)
        /\ ev'.pre.len = 0 => ev'.calls = << >>
        /\ (ev'.pre.len >= 1 /\ mc.smoothing_window >= 2) => Len(ev'.calls) = 1
        /\ mc.smoothing_window = 1 => ev'.calls = << >>
C21_HistoryEmptyOnlyAtStart ==
    (mc.position_history = << >>) <=>
        (ev.op \in { "init", "reset" } \/ (ev.op = "move" /\ ev.landmarks = None /\ ev.pre.len = 0))
C22_WithDouble(self, latch, time, history) ==
    [ self EXCEPT !.last_double_click_state = latch,
                  !.last_double_click_time = time,
                  !.position_history = history ]
\* the controller with the single-click latch and the history replaced
C22_WithSingle(self, latch, history) ==
    [ self EXCEPT !.last_single_click_state = latch, !.position_history = history ]
C22_Histories == { << >>, << << 0, 0 >> >> }
C22_Times == { 0, MaxTime }

\* detect_single_click: reads and writes only the single-click latch
C22_SingleStep ==
    IsCall("single") =>
        /\ mc' = [ mc EXCEPT !.last_single_click_state = mc'.last_single_click_state ]
        /\ \A latch \in BOOLEAN, time \in C22_Times, history \in C22_Histories :
              detect_single_click(C22_WithDouble(mc, latch, time, history),
                                  ev'.landmarks, ev'.sink_ok)
                = [ self |-> C22_WithDouble(mc', latch, time, history),
                    ret |-> ev'.ret, calls |-> ev'.calls ]
\* detect_double_click: reads and writes only the double-click latch and the
\* last double-click time
C22_DoubleStep ==
    IsCall("double") =>
        /\ mc' = [ mc EXCEPT !.last_double_click_state = mc'.last_double_click_state,
                             !.last_double_click_time = mc'.last_double_click_time ]
        /\ \A latch \in BOOLEAN, history \in C22_Histories :
              detect_double_click(C22_WithSingle(mc, latch, history),
                                  ev'.landmarks, now, ev'.sink_ok)
                = [ self |-> C22_WithSingle(mc', latch, history),
                    ret |-> ev'.ret, calls |-> ev'.calls ]
\* the two calls of one frame: each detector does what it would have done
\* alone on the controller as the frame found it, in either order
C22_FrameStep ==
    IsCall("clicks") =>
        \E click \in { << >>, Click }, double_click \in { << >>, DoubleClick } :
            /\ ev'.calls = click \o double_click
            /\ detect_single_click(mc, ev'.landmarks, ev'.args[1])
                 = [ self |-> [ mc EXCEPT !.last_single_click_state =
                                             mc'.last_single_click_state ],
                     ret |-> ev'.value[1], calls |-> click ]
            /\ detect_double_click(mc, ev'.landmarks, now, ev'.args[2])
                 = [ self |-> [ mc' EXCEPT !.last_single_click_state =
                                              mc.last_single_click_state ],
                     ret |-> ev'.value[2], calls |-> double_click ]

\* C22 (SpecFrame).  The two click detectors are independent:
\* detect_single_click reads and writes only the single-click latch,
\* detect_double_click only the double-click latch and the last double-click
\* time, neither touches the position history, and on the two calls of one
\* frame each detector issues, returns and records what it would have alone,
\* whatever the other did; one frame can issue both a click and a
\* double-click (the witness).
C22_DetectorsIndependent ==
    [][C22_SingleStep /\ C22_DoubleStep /\ C22_FrameStep]_vars
C22_Witness ==
    /\ ev.op = "clicks"
    /\ ev.calls = << << "click" >>, << "doubleClick" >> >>
    /\ ev.value = << TRUE, TRUE >>
    /\ mc.position_history # << >>

C23_Thresholds(self) == << self.single_click_threshold, self.double_click_threshold >>

\* a calibration, whether or not it produces and writes a scale factor,
\* leaves the controller, its two thresholds included, as it was
C23_CalibrationStep ==
    IsCall("calibrate") =>
        /\ mc' = mc
        /\ C23_Thresholds(mc') = C23_Thresholds(mc)
        /\ ss'.scale_factor # ss.scale_factor =>
              (ev'.value # None /\ ss'.scale_factor = ev'.value[1])
\* set_click_thresholds changes the two thresholds and nothing else
C23_ThresholdsStep ==
    IsCall("thresholds") =>
        /\ C23_Thresholds(mc') \in ThresholdChoices
        /\ mc' = [ mc EXCEPT !.single_click_threshold = mc'.single_click_threshold,
                             !.double_click_threshold = mc'.double_click_threshold ]
        /\ mc'.last_single_click_state = mc.last_single_click_state
        /\ mc'.last_double_click_state = mc.last_double_click_state
        /\ mc'.last_double_click_time = mc.last_double_click_time
        /\ mc'.position_history = mc.position_history
        /\ ss' = ss
\* the thresholds change only in set_click_thresholds, the scale factor only
\* in a calibration
C23_OnlyBy ==
    /\ C23_Thresholds(mc') # C23_Thresholds(mc) => IsCall("thresholds")
    /\ ss'.scale_factor # ss.scale_factor => IsCall("calibrate")

C24_InWindow ==
    /\ gesture.d_fire # None
    /\ now - gesture.d_fire[1] < double_click_debounce
C24_Step ==
    (IsCall("double") /\ ev'.landmarks # None /\ C24_InWindow) =>
        /\ mc.last_double_click_time = gesture.d_fire[1]
        /\ mc' = mc
        /\ ev'.calls = << >> /\ ~ev'.ret
        /\ mc'.last_double_click_state = mc.last_double_click_state

\* C24 (SpecClicks).  A detect_double_click call made less than 0.5 s after
\* the last successful double-click fire changes no controller state and
\* issues nothing: the double-click latch is frozen for the whole debounce
\* window, so a frame inside the window on which the pinch is released
\* leaves the latch engaged.
C24_LatchFrozenInWindow == [][C24_Step]_vars
C24_Witness ==
    /\ ev.op = "double" /\ ev.landmarks # None
    /\ C24_InWindow
    /\ DoubleDist(ev.landmarks) >= mc.double_click_threshold
    /\ ev.pre.double /\ mc.last_double_click_state

\* the sink call of an edge frame raises: nothing is recorded
C25_RaiseStep ==
    /\ (IsCall("single") /\ ev'.calls # << >> /\ ~ev'.sink_ok) =>
          /\ ev'.calls = Click /\ ~ev'.ret
          /\ mc' = mc /\ ~mc'.last_single_click_state
    /\ (IsCall("double") /\ ev'.calls # << >> /\ ~ev'.sink_ok) =>
          /\ ev'.calls = DoubleClick /\ ~ev'.ret
          /\ mc' = mc /\ ~mc'.last_double_click_state
          /\ mc'.last_double_click_time = mc.last_double_click_time
          /\ now - mc'.last_double_click_time >= double_click_debounce
\* a below-threshold frame that finds the latch disengaged (and, for the
\* double-click, is outside the debounce window) calls the sink, and the
\* latch engages exactly when that call succeeds
C25_RetryStep ==
    /\ (IsCall("single") /\ ev'.landmarks # None /\ ~mc.last_single_click_state
          /\ SingleDist(ev'.landmarks) < mc.single_click_threshold) =>
          /\ ev'.calls = Click
          /\ mc'.last_single_click_state = ev'.sink_ok
    /\ (IsCall("double") /\ ev'.landmarks # None /\ ~mc.last_double_click_state
          /\ DoubleDist(ev'.landmarks) < mc.double_click_threshold
          /\ now - mc.last_double_click_time >= double_click_debounce) =>
          /\ ev'.calls = DoubleClick
          /\ mc'.last_double_click_state = ev'.sink_ok
          /\ mc'.last_double_click_time = IF ev'.sink_ok THEN now
                                          ELSE mc.last_double_click_time
\* a latch engages only in a step whose sink call succeeded
C25_EngageStep ==
    /\ (mc'.last_single_click_state /\ ~mc.last_single_click_state) =>
          (IsCall("single") /\ ev'.calls = Click /\ ev'.sink_ok /\ ev'.ret)
    /\ (mc'.last_double_click_state /\ ~mc.last_double_click_state) =>
          (IsCall("double") /\ ev'.calls = DoubleClick /\ ev'.sink_ok /\ ev'.ret)
\* in a run of below-threshold frames none of whose sink calls has succeeded
\* yet, the single-click latch is disengaged, and a double-click sink call
\* that raised leaves the detector outside the debounce window
C25_Pending ==
    /\ (gesture.s_len >= 1 /\ gesture.s_clicks = 0) => ~mc.last_single_click_state
    /\ (ev.op = "double" /\ ev.calls # << >> /\ ~ev.ret) =>
          (~mc.last_double_click_state
             /\ now - mc.last_double_click_time >= double_click_debounce)

\* C25 (SpecClicks).  When the click or double-click sink call raises on an
\* edge frame, the corresponding latch stays disengaged and, for the
\* double-click, the last double-click time is not updated; the sink call is
\* therefore made again on every following below-threshold frame until one
\* succeeds, and only that success engages the latch.
C25_SinkRaiseIsRetried ==
    /\ []C25_Pending
    /\ [][C25_RaiseStep /\ C25_RetryStep /\ C25_EngageStep]_vars
C25_Witness ==
    /\ gesture.s_failed /\ gesture.s_clicks = 1 /\ gesture.s_click_at >= 2
    /\ mc.last_single_click_state
    /\ ev.op = "double" /\ ev.calls = DoubleClick /\ ~ev.sink_ok
    /\ ~mc.last_double_click_state
    /\ mc.last_double_click_time > 0

\* the step is a controller call made by a frame
C26_FrameActs == IsCall("move") \/ IsCall("single") \/ IsCall("double")
\* the tracking value a processor holds is the one it last read
\* successfully, and True when it has read none
C26_LastRead ==
    vp.tracking_cache = (IF vp.known.tracking = None THEN TRUE ELSE vp.known.tracking[1])
\* a frame calls the controller only with a true tracking value
C26_ActStep ==
    C26_FrameActs =>
        /\ vp.pc \in { "move", "single", "double" }
        /\ vp.tracking_cache /\ vp'.tracking_cache
\* the controllers change only in such a call, in reset() on the user's
\* thread, or when a local controller is constructed
C26_MutateStep ==
    (mc' # mc \/ local_mc' # local_mc) =>
        \/ C26_FrameActs /\ vp.tracking_cache
        \/ IsCall("reset") /\ ui = "reset"
        \/ mc' = mc /\ local_mc' = MouseController(default_smoothing_window)
\* every sink command is issued by a frame's call
C26_CommandStep ==
    (ev'.seq # ev.seq /\ ev'.calls # << >>) => (C26_FrameActs /\ vp.tracking_cache)
\* the start of a frame: the value is the shared flag when one of the two
\* reads succeeds (as it does when at most one access of the three fails),
\* and the value held before otherwise
C26_ReadStep ==
    (vp.pc = "idle" /\ vp'.pc = "calibrate") =>
        /\ vp'.known.tracking \in { << ss.tracking >>, vp.known.tracking }
        /\ obs'.faults - obs.faults <= 1 => vp'.known.tracking = << ss.tracking >>
        /\ vp'.known.tracking = << ss.tracking >> => vp'.tracking_cache = ss.tracking
        /\ vp'.known.tracking # << ss.tracking >> =>
              vp'.tracking_cache = vp.tracking_cache
\* within a frame the value does not change
C26_HeldStep ==
    (vp.pc \notin { "none", "idle" }) =>
        (vp'.tracking_cache = vp.tracking_cache /\ vp'.known.tracking = vp.known.tracking)

\* C26 (SpecPause).  A frame issues move, click or double-click commands
\* and changes controller state only if the tracking value it uses is true;
\* that value is the shared tracking flag when the frame can read it and
\* otherwise the value last read successfully, which is True before any
\* successful read.
C26_ActsOnlyWhenTracking ==
    /\ []C26_LastRead
    /\ [][C26_ActStep /\ C26_MutateStep /\ C26_CommandStep /\ C26_ReadStep
            /\ C26_HeldStep]_vars
C26_Witness ==
    /\ ~ss.tracking
    /\ vp.known.tracking = << TRUE >> /\ vp.tracking_cache
    /\ obs.faults = MaxFaults
    /\ ev.op = "single" /\ ev.calls = Click /\ vp.pc = "double"

\* every history entry lies in [0, 1] on both axes
C27_HistoryInUnitSquare ==
    \A i \in 1..Len(mc.position_history) :
        /\ 0 <= mc.position_history[i][1] /\ mc.position_history[i][1] <= PosDen
        /\ 0 <= mc.position_history[i][2] /\ mc.position_history[i][2] <= PosDen
\* the moveTo command of the last move_cursor call carries the truncated
\* products of the screen dimensions with the mean of the history's window
C27_Command ==
    (ev.op = "move" /\ ev.calls # << >>) =>
        LET command == ev.calls[1]
            recent == LastN(mc.position_history, mc.smoothing_window)
        IN  /\ Len(ev.calls) = 1 /\ command[1] = "moveTo"
            /\ command[2] \in 0..screen_width
            /\ command[3] \in 0..screen_height
            /\ command[2] = ToScreen(SumAxis(recent, 1), Len(recent), PosDen, screen_width)
            /\ command[3] = ToScreen(SumAxis(recent, 2), Len(recent), PosDen, screen_height)

\* C27 (SpecMove).  Every moveTo command carries integer screen coordinates
\* with 0 <= screen_x <= screen_width and 0 <= screen_y <= screen_height:
\* each is the truncated product of the screen dimension with the mean of
\* history entries that all lie in [0, 1].
C27_CommandOnScreen == C27_HistoryInUnitSquare /\ C27_Command
C27_Witness ==
    /\ ev.op = "move" /\ ev.calls # << >>
    /\ ev.calls[1] = << "moveTo", 0, screen_height >>
    /\ Len(mc.position_history) >= 2

=============================================================================
